---------------------------- MODULE Spec2Model ----------------------------
(***************************************************************************)
(* GalaxyTools/cosmo.py: the power-spectrum readers (read_powerspectrum,   *)
(* calc_Plin, get_Plin), the window kernels (wf, dwf) and variance.        *)
(*                                                                         *)
(* Numbers.  Radii are taken from RGrid (powers of two).  A wavenumber k   *)
(* is held as the integer K = k * KDen, a window argument y = k*r as       *)
(* Y = y * KDen, a window value w as the integer nearest to w * WDen.      *)
(* A float is a record [nan, v]: nan is IEEE not-a-number, v the integer   *)
(* in the unit of the quantity.  The positive factor 1/(2*pi^2) is part    *)
(* of the unit of every variance.                                          *)
(***************************************************************************)
EXTENDS Integers, Sequences, FiniteSets

\* ------------------------------------------------------------------ bounds
MaxP     == 1   \* power values of a table are 0..MaxP
MaxNrbin == 4   \* param.code.Nrbin is 1..MaxNrbin
MaxLen   == 2   \* the vectors handed to wf and dwf have 1..MaxLen elements

\* 1/initial of the cumtrapz call: initial = 1e-5 = 1/InitialInv
InitialInv == 100000

RGrid == <<1, 2, 4, 8>>          \* the radii rmin and rmax are drawn from
KDen  == RGrid[Len(RGrid)]       \* k = K / KDen, y = Y / KDen
WDen  == 10 * 10                 \* w = v / WDen
KGrid == {0} \cup {RGrid[j] : j \in 1..Len(RGrid)}   \* K of a table row
YVals == {0, 4, 8, 16, 128 * KDen}   \* Y of a vector handed to wf or dwf
Betas == {1, 2}                  \* param.mf.beta of the smoothk window
Windows == {"tophat", "sharpk", "gaussian", "smoothk", "boxcar"}
Supported == {"tophat", "sharpk", "gaussian", "smoothk"}
Keys  == {"camb", "CAMB", "class", "Class", "ps.dat"}   \* param.file.ps

\* ------------------------------------------------------------------ floats
Num(n) == [nan |-> FALSE, v |-> n]
NaN    == [nan |-> TRUE, v |-> 0]
NMul(a, b) == IF a.nan \/ b.nan THEN NaN ELSE Num(a.v * b.v)
NAdd(a, b) == IF a.nan \/ b.nan THEN NaN ELSE Num(a.v + b.v)
\* a >= 0 as IEEE compares: false of a NaN
NGe0(a) == ~a.nan /\ a.v >= 0

RECURSIVE Pow(_, _)
Pow(b, e) == IF e = 0 THEN 1 ELSE b * Pow(b, e - 1)

\* ------------------------------------------------------------------ windows
\* 3(sin y - y cos y)/y^3 at y = Y/KDen in 0 < y <= 8, to 1/WDen
TopHatTab(Y) ==
    CASE Y = 1 -> 100 [] Y = 2 -> 99 [] Y = 4 -> 98 [] Y = 8 -> 90
      [] Y = 16 -> 65 [] Y = 32 -> 9 [] Y = 64 -> 1 [] OTHER -> 0
\* 3((y^2 - 3) sin y + 3 y cos y)/y^3
DTopHatTab(Y) ==
    CASE Y = 1 -> 0 [] Y = 2 -> -1 [] Y = 4 -> -5 [] Y = 8 -> -19
      [] Y = 16 -> -60 [] Y = 32 -> -83 [] Y = 64 -> 33 [] OTHER -> 0
\* exp(-y^2/2); it underflows to 0.0 at y = 128
GaussTab(Y) ==
    CASE Y = 0 -> 100 [] Y = 1 -> 99 [] Y = 2 -> 97 [] Y = 4 -> 88
      [] Y = 8 -> 61 [] Y = 16 -> 14 [] OTHER -> 0
\* -y^2 exp(-y^2/2)
DGaussTab(Y) ==
    CASE Y = 1 -> -2 [] Y = 2 -> -6 [] Y = 4 -> -22 [] Y = 8 -> -61
      [] Y = 16 -> -54 [] Y = 32 -> -1 [] OTHER -> 0

\* 3.0*(np.sin(y) - y*np.cos(y))/y**3.0, then w[y>100] = 0.  At y = 0 the
\* quotient is 0.0/0.0, which numpy evaluates to nan (with a warning).
TopHat(Y) ==
    IF Y = 0 THEN NaN
    ELSE IF Y > 100 * KDen THEN Num(0)
    ELSE Num(TopHatTab(Y))
Gaussian(Y) == Num(GaussTab(Y))
\* 1/(1+y**beta)
SmoothK(Y, b) == Num((WDen * Pow(KDen, b)) \div (Pow(KDen, b) + Pow(Y, b)))

DTopHat(Y) ==
    IF Y = 0 THEN NaN
    ELSE IF Y > 100 * KDen THEN Num(0)
    ELSE Num(DTopHatTab(Y))
DGaussian(Y) == Num(DGaussTab(Y))
\* - beta*y**beta/(1+y**beta)**2, as -beta * [y^b/(1+y^b)] * [1/(1+y^b)]
DSmoothK(Y, b) ==
    Num(-((b * ((WDen * Pow(Y, b)) \div (Pow(KDen, b) + Pow(Y, b)))
             * SmoothK(Y, b).v) \div WDen))

\* What a call ends in.  kind: "value" (returns val), "exit" (print and
\* exit(): SystemExit), "raise" (the exception exc leaves the function).
Value(x)  == [kind |-> "value", val |-> x, exc |-> "none"]
Exit      == [kind |-> "exit", val |-> <<>>, exc |-> "SystemExit"]
Raise(e)  == [kind |-> "raise", val |-> <<>>, exc |-> e]

\* np.ones(y) takes y for a shape: a float vector is no shape, TypeError.
SharpKOnes(yv) == Raise("TypeError")

wfExitReturnsOnes(yv, p) ==
    IF p.window = "tophat" THEN Value([j \in 1..Len(yv) |-> TopHat(yv[j])])
    ELSE IF p.window = "sharpk" THEN SharpKOnes(yv)
    ELSE IF p.window = "gaussian" THEN Value([j \in 1..Len(yv) |-> Gaussian(yv[j])])
    ELSE IF p.window = "smoothk" THEN Value([j \in 1..Len(yv) |-> SmoothK(yv[j], p.beta)])
    ELSE Value([j \in 1..Len(yv) |-> Num(WDen)])

wf(yv, p) ==
    IF p.window = "tophat" THEN Value([j \in 1..Len(yv) |-> TopHat(yv[j])])
    ELSE IF p.window = "sharpk" THEN SharpKOnes(yv)
    ELSE IF p.window = "gaussian" THEN Value([j \in 1..Len(yv) |-> Gaussian(yv[j])])
    ELSE IF p.window = "smoothk" THEN Value([j \in 1..Len(yv) |-> SmoothK(yv[j], p.beta)])
    ELSE Exit

\* sharpk: the scalar 0.0, not a vector
dwf(yv, p) ==
    IF p.window = "tophat" THEN Value([j \in 1..Len(yv) |-> DTopHat(yv[j])])
    ELSE IF p.window = "sharpk" THEN Value(Num(0))
    ELSE IF p.window = "gaussian" THEN Value([j \in 1..Len(yv) |-> DGaussian(yv[j])])
    ELSE IF p.window = "smoothk" THEN Value([j \in 1..Len(yv) |-> DSmoothK(yv[j], p.beta)])
    ELSE Exit


\* ------------------------------------------------------------------ tables
RECURSIVE SeqOf(_)
SeqOf(S) ==
    IF S = {} THEN <<>>
    ELSE LET m == CHOOSE x \in S : \A z \in S : x <= z
         IN <<m>> \o SeqOf(S \ {m})
\* A power-spectrum table: rows [k, P], k strictly increasing
MkTable(S, pw) == [j \in 1..Cardinality(S) |-> [k |-> SeqOf(S)[j], P |-> pw[SeqOf(S)[j]]]]
Tables ==
    UNION {{MkTable(S, pw) : pw \in [S -> 0..MaxP]} :
           S \in {T \in SUBSET KGrid : Cardinality(T) >= 2}}
FullTable == MkTable(KGrid, [x \in KGrid |-> 1])
ShortTable == MkTable({1, KDen}, [x \in {1, KDen} |-> 1])
Col(rows, c) == [j \in 1..Len(rows) |-> IF c = "k" THEN rows[j].k ELSE rows[j].P]

\* The value of a PS variable: src says where the rows came from
\* ("None" is Python's None, "unset" a local never assigned)
Table(src, rows) == [src |-> src, rows |-> rows]
None  == Table("None", <<>>)
Unset == Table("unset", <<>>)

VARIABLES
    op,          \* the function called: "wf", "dwf", "get_Plin", "variance"
    param,       \* the configuration record handed to it
    env,         \* the files and solvers around the call
    y,           \* the vector handed to wf or dwf
    pc,          \* where the call stands
    PS,          \* variance's local PS
    rbin,        \* variance's local rbin
    var,         \* variance's local var
    dlnvardlnr,  \* variance's local dlnvardlnr
    Plin_tck,    \* variance's local Plin_tck, the spline of the sharpk path
    out,         \* what the call ended in
    log,         \* the calls made and messages printed so far
    sink         \* the profiles np.savetxt has written to param.file.varfct
vars == <<op, param, env, y, Plin_tck, pc, PS, rbin, var, dlnvardlnr, out, log, sink>>

\* ------------------------------------------------------------------ readers
\* str.lower() on the keys of Keys
Lower(s) == CASE s = "CAMB" -> "camb" [] s = "Class" -> "class" [] OTHER -> s

\* The Boltzmann solvers (run_BoltzmannSolver): a table, or the solver's error
run_camb(e)  == IF e.solverOK THEN Value(Table("camb", e.tbl)) ELSE Raise("SolverError")
run_class(e) == IF e.solverOK THEN Value(Table("class", e.tbl)) ELSE Raise("SolverError")

\* A reader's result: what it ended in, the solvers run, the messages printed
Res(o, solvers, printed) == [out |-> o, solvers |-> solvers, printed |-> printed]

calc_PlinRaises(p, e) ==
    IF Lower(p.ps) = "camb" THEN
        Res(IF run_camb(e).kind = "value" THEN Raise("UnboundLocalError") ELSE run_camb(e),
            <<"camb">>, {})
    ELSE IF Lower(p.ps) = "class" THEN Res(run_class(e), <<"class">>, {})
    ELSE Res(Raise("InputError"), <<>>, {"choose CAMB or CLASS or a file"})

\* "camb": r = run_camb(param), and return PS: PS was never assigned
calc_Plin(p, e) ==
    IF Lower(p.ps) = "camb" THEN
        Res(IF run_camb(e).kind = "value" THEN Raise("UnboundLocalError") ELSE run_camb(e),
            <<"camb">>, {})
    ELSE IF Lower(p.ps) = "class" THEN Res(run_class(e), <<"class">>, {})
    ELSE Res(Value(None), <<>>, {"choose CAMB or CLASS or a file"})

\* np.genfromtxt in a try; any failure goes to calc_Plin
read_powerspectrum(p, e) ==
    IF e.fileOK THEN Res(Value(Table("file", e.tbl)), <<>>, {})
    ELSE calc_Plin(p, e)

get_Plin(p, e) == read_powerspectrum(p, e)

Logged(l, r, reads) ==
    [l EXCEPT !.read = @ + reads, !.gen = @ + reads,
              !.solvers = @ \o r.solvers, !.printed = @ \cup r.printed]


\* ------------------------------------------------------------------ numerics
\* np.log and the power of e, on the radii of RGrid, in units of ln 2
Ln(r)  == CHOOSE x \in 0..(Len(RGrid) - 1) : RGrid[x + 1] = r
Exp(x) == RGrid[x + 1]
\* np.linspace(a, b, n): a + i*step, the last element set to b when n > 1
linspace(a, b, n) ==
    LET step == IF n > 1 THEN (b - a) \div (n - 1) ELSE 0
    IN [j \in 1..n |-> IF n > 1 /\ j = n THEN b ELSE a + (j - 1) * step]
\* np.logspace(np.log(rmin), np.log(rmax), Nrbin, base=np.e)
logspaceLinear(rmin, rmax, n) ==
    LET step == IF n > 1 THEN (rmax - rmin) \div (n - 1) ELSE 0
    IN [j \in 1..n |-> IF n > 1 /\ j = n THEN rmax ELSE rmin + (j - 1) * step]
logspace(rmin, rmax, n) ==
    [j \in 1..n |-> Exp(linspace(Ln(rmin), Ln(rmax), n)[j])]

Reverse(s) == [j \in 1..Len(s) |-> s[Len(s) + 1 - j]]

\* Twice the trapezoidal sum of f over x up to point m:
\* sum over j < m of (x[j+1] - x[j]) * (f[j] + f[j+1])
RECURSIVE Trapz2(_, _, _)
Trapz2(f, x, m) ==
    IF m <= 1 THEN Num(0)
    ELSE NAdd(Trapz2(f, x, m - 1),
              NMul(Num(x[m] - x[m - 1]), NAdd(f[m - 1], f[m])))
\* trapz(f, x), in units of 1/2
trapz(f, x) == Trapz2(f, x, Len(x))

\* cumtrapz(f, x, initial=1e-5), in units of 1/(2 * InitialInv * KDen^3)
\* when f is in units of 1/KDen^2 and x in units of 1/KDen: scipy puts
\* initial in front of the cumulative sums, it does not add it to them
cumtrapz(f, x) ==
    [m \in 1..Len(x) |->
        IF m = 1 THEN Num(2 * Pow(KDen, 3))
        ELSE IF Trapz2(f, x, m).nan THEN NaN
        ELSE Num(InitialInv * Trapz2(f, x, m).v)]

\* A quotient of floats, kept as its two terms
Ratio(n, d) == [num |-> n, den |-> d]

\* The direct path's bin for radius r (lines 175-179)
\* itd_var = k^2 P wf(k r)^2, in units of 1/(KDen^2 WDen^2)
ItdVar(rows, r, p) ==
    LET w == wf([j \in 1..Len(rows) |-> rows[j].k * r], p).val
    IN [j \in 1..Len(rows) |->
          NMul(NMul(Num(rows[j].k * rows[j].k * rows[j].P), w[j]), w[j])]
ItdDvar(rows, r, p) ==
    LET w  == wf([j \in 1..Len(rows) |-> rows[j].k * r], p).val
        dw == dwf([j \in 1..Len(rows) |-> rows[j].k * r], p).val
    IN [j \in 1..Len(rows) |->
          NMul(NMul(Num(rows[j].k * rows[j].k * rows[j].P), w[j]), dw[j])]
\* var[i], in units of 1/(2 pi^2 * 2 KDen^3 WDen^2)
BinVar(rows, r, p) == trapz(ItdVar(rows, r, p), Col(rows, "k"))
\* dlnvardlnr[i] = 2 trapz(itd_dvar) / (2 pi^2 var[i])
BinDln(rows, r, p) ==
    Ratio(NMul(Num(2), trapz(ItdDvar(rows, r, p), Col(rows, "k"))), BinVar(rows, r, p))

\* splrep fits a cubic spline through the rows and needs more than 3 of
\* them; splev gives P at a knot; off the knots the spline's value is one
\* of OffKnot (a cubic through non-negative data may dip below 0)
OffKnot == {-1} \cup (0..MaxP)
Splines(rows) ==
    {s \in [{RGrid[j] : j \in 1..Len(RGrid)} -> OffKnot] :
        \A j \in 1..Len(rows) : rows[j].k \in DOMAIN s => s[rows[j].k] = rows[j].P}
\* kbin = (1/rbin)[::-1], as K
Kbin(rb) == Reverse([j \in 1..Len(rb) |-> KDen \div rb[j]])
\* kbin**2 * splev(kbin, Plin_tck), in units of 1/KDen^2
SharpItd(rb, s) == [j \in 1..Len(rb) |-> Num(Kbin(rb)[j] * Kbin(rb)[j] * s[Kbin(rb)[j]])]
\* var of the sharpk path (lines 185-188), in units of
\* 1/(2 pi^2 * 2 InitialInv KDen^3)
SharpVarUnreversed(rb, s) == cumtrapz(SharpItd(rb, s), Kbin(rb))
SharpVar(rb, s) == Reverse(cumtrapz(SharpItd(rb, s), Kbin(rb)))
\* dlnvardlnr = -1/(2 pi^2 var) * splev(1/rbin)/rbin^3 (line 190)
SharpDln(rb, s) ==
    [j \in 1..Len(rb) |->
        Ratio(Num(-(s[KDen \div rb[j]] * Pow(KDen \div rb[j], 3))), SharpVar(rb, s)[j])]


\* ------------------------------------------------------------------ the calls
Direct == {"tophat", "gaussian", "smoothk"}
Running == [kind |-> "running", val |-> <<>>, exc |-> "none"]
NoLog == [read |-> 0, gen |-> 0, solvers |-> <<>>, save |-> 0, printed |-> {}]

\* param: mf.window, mf.beta, cosmo.plin (has: the attribute holds a table),
\* file.ps, code.Nrbin, code.rmin, code.rmax
Param(w, b, has, rows, key, n, lo, hi) ==
    [window |-> w, beta |-> b, hasPlin |-> has, plin |-> rows, ps |-> key,
     Nrbin |-> n, rmin |-> lo, rmax |-> hi]
\* env: the file param.file.ps can be read and holds tbl; the solver runs
\* and yields tbl; the sink param.file.varfct can be written
Env(fileOK, solverOK, sinkOK, tbl) ==
    [fileOK |-> fileOK, solverOK |-> solverOK, sinkOK |-> sinkOK, tbl |-> tbl]

\* rmin < rmax on RGrid, with every bin on RGrid
Binnings ==
    {b \in (1..Len(RGrid)) \X (1..Len(RGrid)) \X (1..MaxNrbin) :
        /\ b[1] < b[2]
        /\ b[3] > 1 => (b[2] - b[1]) % (b[3] - 1) = 0}
WindowBetas ==
    {wb \in Windows \X Betas : wb[1] # "smoothk" => wb[2] = 1}
Vectors == UNION {[1..n -> YVals] : n \in 1..MaxLen}

Start(o, p, e, yv) ==
    /\ op = o /\ param = p /\ env = e /\ y = yv
    /\ pc = "call" /\ PS = Unset
    /\ rbin = <<>> /\ var = <<>> /\ dlnvardlnr = <<>> /\ Plin_tck = <<>>
    /\ out = Running /\ log = NoLog /\ sink = <<>>

DefaultEnv == Env(TRUE, TRUE, TRUE, FullTable)
DefaultParam == Param("tophat", 1, FALSE, <<>>, "ps.dat", 2, 1, 2)

\* wf(y, param) and dwf(y, param) on a vector
InitKernel ==
    \E o \in {"wf", "dwf"}, wb \in WindowBetas, yv \in Vectors :
        Start(o, [DefaultParam EXCEPT !.window = wb[1], !.beta = wb[2]], DefaultEnv, yv)
\* get_Plin(param)
InitPlin ==
    \E key \in Keys, fileOK \in BOOLEAN, solverOK \in BOOLEAN, t \in {FullTable, ShortTable} :
        Start("get_Plin", [DefaultParam EXCEPT !.ps = key],
              Env(fileOK, solverOK, TRUE, t), <<>>)
\* variance(param) on every pre-loaded table and every binning
InitVarianceTables ==
    \E wb \in WindowBetas, b \in Binnings, t \in Tables :
        Start("variance",
              Param(wb[1], wb[2], TRUE, t, "ps.dat",
                    b[3], RGrid[b[1]], RGrid[b[2]]),
              Env(TRUE, TRUE, TRUE, t), <<>>)
\* variance(param) with every source of the power spectrum and every sink;
\* a pre-loaded table may be absent, empty or filled
InitVarianceSources ==
    \E wb \in WindowBetas, b \in {c \in Binnings : c[1] = 1 /\ c[2] = Len(RGrid)},
       t \in {FullTable, ShortTable}, pl \in {"absent", "empty", "filled"}, key \in Keys,
       fileOK \in BOOLEAN, solverOK \in BOOLEAN, sinkOK \in BOOLEAN :
        Start("variance",
              Param(wb[1], wb[2], pl # "absent", IF pl = "filled" THEN FullTable ELSE <<>>,
                    key, b[3], RGrid[b[1]], RGrid[b[2]]),
              Env(fileOK, solverOK, sinkOK, t), <<>>)

Init == InitKernel \/ InitPlin \/ InitVarianceTables \/ InitVarianceSources

Finish(o) == /\ out' = o /\ pc' = "done"

CallWf ==
    /\ pc = "call" /\ op = "wf"
    /\ Finish(wf(y, param))
    /\ log' = [log EXCEPT !.printed =
                 IF wf(y, param).kind = "exit" THEN {"undefined window function"} ELSE {}]
    /\ UNCHANGED <<op, param, env, y, Plin_tck, PS, rbin, var, dlnvardlnr, sink>>

CallDwf ==
    /\ pc = "call" /\ op = "dwf"
    /\ Finish(dwf(y, param))
    /\ log' = [log EXCEPT !.printed =
                 IF dwf(y, param).kind = "exit" THEN {"undefined window function"} ELSE {}]
    /\ UNCHANGED <<op, param, env, y, Plin_tck, PS, rbin, var, dlnvardlnr, sink>>

CallGetPlin ==
    /\ pc = "call" /\ op = "get_Plin"
    /\ Finish(get_Plin(param, env).out)
    /\ log' = Logged(log, get_Plin(param, env), 1)
    /\ UNCHANGED <<op, param, env, y, Plin_tck, PS, rbin, var, dlnvardlnr, sink>>

UsableWhenPresent(has, rows) == has
\* param.cosmo.plin is there and min(PS['k']), max(PS['k']) can be evaluated
Usable(has, rows) == has /\ Len(rows) > 0

\* lines 149-161: the pre-loaded table in a try; on any failure of the try
\* read_powerspectrum, whose own failures and whose None (min(None['k']) is
\* a TypeError) leave variance
LoadPS ==
    /\ pc = "call" /\ op = "variance"
    /\ IF Usable(param.hasPlin, param.plin) THEN
          /\ PS' = Table("plin", param.plin)
          /\ pc' = "binning"
          /\ UNCHANGED <<out, log>>
       ELSE
          LET r == read_powerspectrum(param, env) IN
          /\ log' = Logged(log, r, 1)
          /\ IF r.out.kind = "value" /\ r.out.val.src # "None" THEN
                /\ PS' = r.out.val
                /\ pc' = "binning"
                /\ UNCHANGED out
             ELSE
                /\ PS' = IF r.out.kind = "value" THEN r.out.val ELSE PS
                /\ Finish(IF r.out.kind = "value" THEN Raise("TypeError") ELSE r.out)
    /\ UNCHANGED <<op, param, env, y, Plin_tck, rbin, var, dlnvardlnr, sink>>

\* lines 163-167
SetBinning ==
    /\ pc = "binning"
    /\ rbin' = logspace(param.rmin, param.rmax, param.Nrbin)
    /\ pc' = "branch"
    /\ UNCHANGED <<op, param, env, y, Plin_tck, PS, var, dlnvardlnr, out, log, sink>>

\* lines 173-179: one pass of the loop over the bins
DirectBin ==
    /\ pc = "branch" /\ param.window \in Direct
    /\ Len(var) < param.Nrbin
    /\ var' = Append(var, BinVar(PS.rows, rbin[Len(var) + 1], param))
    /\ dlnvardlnr' = Append(dlnvardlnr, BinDln(PS.rows, rbin[Len(var) + 1], param))
    /\ UNCHANGED <<op, param, env, y, Plin_tck, pc, PS, rbin, out, log, sink>>

\* lines 180-181: the loop is over
DirectDone ==
    /\ pc = "branch" /\ param.window \in Direct
    /\ Len(var) = param.Nrbin
    /\ pc' = "write"
    /\ UNCHANGED <<op, param, env, y, Plin_tck, PS, rbin, var, dlnvardlnr, out, log, sink>>

\* lines 182-190
SharpK ==
    /\ pc = "branch" /\ param.window = "sharpk"
    /\ IF Len(PS.rows) <= 3 THEN
          /\ Finish(Raise("TypeError"))
          /\ UNCHANGED <<Plin_tck, var, dlnvardlnr>>
       ELSE
          \E s \in Splines(PS.rows) :
             /\ Plin_tck' = s
             /\ var' = SharpVar(rbin, s)
             /\ dlnvardlnr' = SharpDln(rbin, s)
             /\ pc' = "write"
             /\ UNCHANGED out
    /\ UNCHANGED <<op, param, env, y, PS, rbin, log, sink>>

UndefinedWindowNoExit ==
    /\ pc = "branch" /\ param.window \notin Direct /\ param.window # "sharpk"
    /\ pc' = "write"
    /\ log' = [log EXCEPT !.printed = @ \cup {"undefined window function"}]
    /\ UNCHANGED <<op, param, env, y, Plin_tck, PS, rbin, var, dlnvardlnr, out, sink>>

\* lines 191-193: print and exit()
UndefinedWindow ==
    /\ pc = "branch" /\ param.window \notin Direct /\ param.window # "sharpk"
    /\ Finish(Exit)
    /\ log' = [log EXCEPT !.printed = @ \cup {"undefined window function"}]
    /\ UNCHANGED <<op, param, env, y, Plin_tck, PS, rbin, var, dlnvardlnr, sink>>

OnIOErrorGoOn == Running
\* What np.savetxt's IOError ends in (lines 198-200): print and exit()
OnIOError == Exit

\* lines 195-200
WriteVarfct ==
    /\ pc = "write"
    /\ log' = [log EXCEPT !.save = @ + 1,
                          !.printed = IF env.sinkOK THEN @ ELSE @ \cup {"cannot write varfct"}]
    /\ IF env.sinkOK THEN
          /\ sink' = Append(sink, <<rbin, var, dlnvardlnr>>)
          /\ pc' = "return"
          /\ UNCHANGED out
       ELSE IF OnIOError.kind = "exit" THEN
          /\ Finish(OnIOError)
          /\ UNCHANGED sink
       ELSE
          /\ pc' = "return"
          /\ UNCHANGED <<out, sink>>
    /\ UNCHANGED <<op, param, env, y, Plin_tck, PS, rbin, var, dlnvardlnr>>

\* line 202
Return ==
    /\ pc = "return"
    /\ Finish(Value(<<rbin, var, dlnvardlnr>>))
    /\ UNCHANGED <<op, param, env, y, Plin_tck, PS, rbin, var, dlnvardlnr, log, sink>>

Next ==
    \/ CallWf \/ CallDwf \/ CallGetPlin
    \/ LoadPS \/ SetBinning \/ DirectBin \/ DirectDone \/ SharpK
    \/ UndefinedWindow \/ WriteVarfct \/ Return

Spec == Init /\ [][Next]_vars


\* ------------------------------------------------------------------ claims
Ended(o) == op = o /\ pc = "done"
Obtained == PS.src \in {"plin", "file", "camb", "class"}
NoSolverKey == Lower(param.ps) \notin {"camb", "class"}

StepOf(yv) == [j \in 1..Len(yv) |-> IF yv[j] <= KDen THEN Num(WDen) ELSE Num(0)]

\* C4: for every supported window kind wf on a vector holding y = 0 yields 1
\* at that element, and the sharpk window is the element-wise step function
\* (1 for y <= 1, 0 for y > 1) of the input's length.
C4_UnityAtZero ==
    (Ended("wf") /\ param.window \in Supported)
        => /\ out.kind = "value"
           /\ Len(out.val) = Len(y)
           /\ \A j \in 1..Len(y) : y[j] = 0 => out.val[j] = Num(WDen)
           /\ param.window = "sharpk" => out.val = StepOf(y)

\* k strictly increasing and P >= 0
Physical(rows) ==
    /\ \A j \in 1..Len(rows) : rows[j].P >= 0 /\ rows[j].k >= 0
    /\ \A j \in 1..(Len(rows) - 1) : rows[j].k < rows[j + 1].k

\* C5: on the direct-integration path (tophat, gaussian, smoothk), with k
\* strictly increasing and P >= 0, every computed variance[i] is >= 0.
C5_DirectVarianceNonNegative ==
    (op = "variance" /\ param.window \in Direct /\ Physical(PS.rows))
        => \A j \in 1..Len(var) : NGe0(var[j])

\* C6: for a supported window kind, count >= 2 and rmax > rmin > 0, a
\* successful variance call returns three arrays of count entries each, with
\* radius[0] = rmin, radius[count-1] = rmax, radius strictly increasing and
\* the ratio radius[i+1]/radius[i] the same for every i.
C6_LogUniformBinning ==
    (Ended("variance") /\ out.kind = "value" /\ param.window \in Supported
       /\ param.Nrbin >= 2 /\ param.rmax > param.rmin /\ param.rmin > 0)
        => LET r == out.val[1]
               n == param.Nrbin
           IN /\ Len(r) = n /\ Len(out.val[2]) = n /\ Len(out.val[3]) = n
              /\ r[1] = param.rmin /\ r[n] = param.rmax
              /\ \A j \in 1..(n - 1) : r[j] < r[j + 1]
              /\ \A j \in 1..(n - 1) : r[j + 1] * r[1] = r[2] * r[j]
C6_Witness ==
    /\ Ended("variance") /\ out.kind = "value" /\ param.window = "sharpk"
    /\ param.Nrbin = 4 /\ Len(out.val[1]) = 4 /\ out.val[1][2] = 2

\* C7: when the file cannot be loaded, key camb and key class alike (compared
\* case-insensitively) make get_Plin return the table of the solver invoked;
\* a file that loads is returned as is and no solver is invoked.
C7_FallbackReturnsSolverTable ==
    Ended("get_Plin")
        => /\ env.fileOK => (out = Value(Table("file", env.tbl)) /\ log.solvers = <<>>)
           /\ (~env.fileOK /\ ~NoSolverKey /\ env.solverOK)
                 => /\ log.solvers = <<Lower(param.ps)>>
                    /\ out.kind = "value"
                    /\ out.val.rows = env.tbl

SharpComputed ==
    op = "variance" /\ param.window = "sharpk" /\ pc \in {"write", "return", "done"}
       /\ Len(var) = param.Nrbin
IntegrandNonNegative ==
    \A j \in 1..Len(rbin) : SharpItd(rbin, Plin_tck)[j].v >= 0
\* Twice the trapezoidal sum T_i of k^2 spline(k) from the smallest k, 1/rmax,
\* up to 1/radius[i] (radius[i] is rbin[j], i = j - 1)
T2(j) == Trapz2(SharpItd(rbin, Plin_tck), Kbin(rbin), Len(rbin) + 1 - j).v

\* C8 as stated: on the sharpk path variance[i] = (c0 + T_i)/(2 pi^2) for
\* every bin i, with c0 = 1e-5.
C8_InitialAddedToEveryBin ==
    SharpComputed
        => \A j \in 1..Len(var) : var[j] = Num(2 * Pow(KDen, 3) + InitialInv * T2(j))

\* C8 as amended: on the sharpk path variance[count-1] = c0/(2 pi^2) and
\* variance[i] = T_i/(2 pi^2) for i < count-1 (c0 stands in front of the
\* cumulative sums, it is not added to them); every entry is aligned with
\* radius[i]; and with a non-negative integrand variance is non-increasing
\* over the bins 0..count-2.
C8_InitialOnlyInLastBin ==
    SharpComputed
        => LET n == Len(var)
           IN /\ Len(rbin) = n
              /\ var[n] = Num(2 * Pow(KDen, 3))
              /\ \A j \in 1..(n - 1) : var[j] = Num(InitialInv * T2(j))
              /\ IntegrandNonNegative =>
                    \A j \in 1..(n - 2) : var[j].v >= var[j + 1].v
C8_Witness ==
    /\ SharpComputed /\ pc = "done" /\ out.kind = "value" /\ param.Nrbin >= 3
    /\ IntegrandNonNegative
    /\ var[1].v > var[2].v
    /\ var[param.Nrbin - 1].v < var[param.Nrbin].v

\* C9 as stated: variance uses the pre-loaded table whenever one is present,
\* then reads no file and runs no solver; only without one does it call
\* read_powerspectrum, exactly once.
C9_PresentTableNeverReplaced ==
    (op = "variance" /\ pc # "call")
        => /\ param.hasPlin =>
                 (PS = Table("plin", param.plin) /\ log.read = 0 /\ log.gen = 0
                  /\ log.solvers = <<>>)
           /\ ~param.hasPlin => log.read = 1

\* C9 as amended: variance uses the pre-loaded table whenever one is present
\* and not empty, then reads no file and runs no solver; when none is
\* present, or the one present is empty (min and max of its k column fail),
\* it calls read_powerspectrum exactly once and holds only what that call
\* returned.
C9_UsableTableNeverReplaced ==
    (op = "variance" /\ pc # "call")
        => /\ (param.hasPlin /\ Len(param.plin) > 0) =>
                 (PS = Table("plin", param.plin) /\ log.read = 0 /\ log.gen = 0
                  /\ log.solvers = <<>>)
           /\ ~(param.hasPlin /\ Len(param.plin) > 0) =>
                 (log.read = 1 /\ log.gen = 1 /\ PS.src # "plin")
C9_Witness ==
    /\ Ended("variance") /\ out.kind = "value"
    /\ param.hasPlin /\ Len(param.plin) > 0 /\ env.fileOK
    /\ Lower(param.ps) = "class" /\ log.read = 0

\* C10: in every run of variance the sink is written at most once, and only
\* after the power spectrum was obtained and variance and dlnVarDlnR were
\* computed for all count bins; with an unrecognized window kind or no power
\* spectrum the run ends without any write.
C10_WriteOnceAfterCompute ==
    /\ log.save <= 1 /\ Len(sink) <= log.save
    /\ log.save = 1 =>
          /\ Obtained /\ param.window \in Supported
          /\ Len(rbin) = param.Nrbin /\ Len(var) = param.Nrbin
          /\ Len(dlnvardlnr) = param.Nrbin
    /\ sink # <<>> => sink[1] = <<rbin, var, dlnvardlnr>>
    /\ (pc = "done" /\ (param.window \notin Supported \/ ~Obtained))
          => (log.save = 0 /\ sink = <<>>)
C10_Witness ==
    /\ Ended("variance") /\ Len(sink) = 1 /\ log.save = 1 /\ param.Nrbin = 4
    /\ out.kind = "value"

=============================================================================
